---- MODULE Spec2Model ----
(***************************************************************************)
(* Model of the multi-agent sales assistant: the request router            *)
(* (graph/router.py), the orchestration graph (graph/workflow.py), the     *)
(* conversation memory of a turn (utils/helpers.py) and the hybrid filter  *)
(* and scoring engine (tools/hybrid_search.py).                            *)
(*                                                                         *)
(* Text is modelled as a sequence of chunks.  In the router and in the     *)
(* query text a chunk is a word (or the delimiter, or white space); in a   *)
(* dataset field a chunk is one character.  Lower-casing, stripping,       *)
(* splitting and substring search are computed on these sequences.         *)
(***************************************************************************)
EXTENDS Integers, Sequences, FiniteSets, TLC

\* ------------------------------------------------------------------------
\* Bounds of the model
\* ------------------------------------------------------------------------
MaxTurns == 11

MaxRespLen == 3

MaxRows == 3

MaxFilters == 2

\* the longest dataset of the runs that meet the cuts of the pipeline
MaxBigRows == 12

\* the largest dataset of the runs of get_prospect_details on peer groups
MaxPeers == 3

\* ------------------------------------------------------------------------
\* Program constants
\* ------------------------------------------------------------------------
HistoryLimit == 10

ContextWindow == 3

RecursionLimit == 5

TopResults == 10

FallbackRows == 5

BroaderRows == 5

TopCategories == 10

ReviewThreshold == 10

END == "__end__"

NoValue == "<none>"

\* ------------------------------------------------------------------------
\* Text helpers (Python str operations on chunk sequences)
\* ------------------------------------------------------------------------
LowerChunk(c) ==
  CASE c = "PROSPECTING" -> "prospecting"
    [] c = "Prospecting" -> "prospecting"
    [] c = "Insights" -> "insights"
    [] c = "INSIGHTS" -> "insights"
    [] c = "Communication" -> "communication"
    [] c = "END" -> "end"
    [] c = "SALESREP" -> "salesrep"
    [] c = "DEMANDGEN" -> "demandgen"
    [] c = "LOW LOCAL PRESENCE" -> "low local presence"
    [] c = "Weak Local Presence" -> "weak local presence"
    [] c = "High SEM" -> "high sem"
    [] c = "Google Ads Spend" -> "google ads spend"
    [] c = "Contract" -> "contract"
    [] c = "Computer" -> "computer"
    [] c = "Contractor" -> "contractor"
    [] c = "A" -> "a"
    [] c = "B" -> "b"
    [] c = "T" -> "t"
    [] c = "N" -> "n"
    [] OTHER -> c

Lower(s) == [i \in 1..Len(s) |-> LowerChunk(s[i])]

\* needle in hay (Python's substring test)
Contains(hay, needle) ==
  \E i \in 0..(Len(hay) - Len(needle)) :
     \A j \in 1..Len(needle) : hay[i + j] = needle[j]

IsSpace(c) == c = " "

RECURSIVE LStrip(_)
LStrip(s) == IF s # <<>> /\ IsSpace(Head(s)) THEN LStrip(Tail(s)) ELSE s

RECURSIVE RStrip(_)
RStrip(s) ==
  IF s # <<>> /\ IsSpace(s[Len(s)]) THEN RStrip(SubSeq(s, 1, Len(s) - 1)) ELSE s

Strip(s) == RStrip(LStrip(s))

\* str.split(sep): the parts between the separators, one more than separators
RECURSIVE SplitFrom(_, _, _)
SplitFrom(s, sep, cur) ==
  IF s = <<>> THEN <<cur>>
  ELSE IF Head(s) = sep THEN <<cur>> \o SplitFrom(Tail(s), sep, <<>>)
  ELSE SplitFrom(Tail(s), sep, Append(cur, Head(s)))

Split(s, sep) == SplitFrom(s, sep, <<>>)

\* list[-n:]
LastN(s, n) == IF Len(s) <= n THEN s ELSE SubSeq(s, Len(s) - n + 1, Len(s))

\* list[:n]
FirstN(s, n) == IF Len(s) <= n THEN s ELSE SubSeq(s, 1, n)

\* dict.get(key, default) on a function whose domain is the set of keys
Get(d, k, default) == IF k \in DOMAIN d THEN d[k] ELSE default

EmptyDict == [k \in {} |-> NoValue]

SeqsUpTo(S, n) == UNION {[1..k -> S] : k \in 0..n}

\* ------------------------------------------------------------------------
\* graph/router.py : route_requests
\* ------------------------------------------------------------------------
\* The classifier either raises or answers with a text.
ClassifierRaises == [kind |-> "raise"]

ClassifierText(t) == [kind |-> "text", text |-> t]

\* No call made yet.
NoCall == [kind |-> "none"]

\* the keyword rules with "insights" tried before "prospecting"
MatchRoute_InsightsFirst(route) ==
  IF Contains(route, <<"insights">>) THEN "insights"
  ELSE IF Contains(route, <<"prospecting">>) THEN "prospecting"
  ELSE IF Contains(route, <<"communication">>) THEN "communication"
  ELSE "end"

\* lines 54-61: the ordered keyword rules on the lower-cased route token
MatchRoute(route) ==
  IF Contains(route, <<"prospecting">>) THEN "prospecting"
  ELSE IF Contains(route, <<"insights">>) THEN "insights"
  ELSE IF Contains(route, <<"communication">>) THEN "communication"
  ELSE "end"

\* The whole of route_requests: the outcome of the call and the user_context
\* mapping it leaves behind (state['user_context'] is the mapping passed in).
route_requests(answer, user_context) ==
  IF answer.kind = "raise"
  THEN [kind |-> "raise", error |-> "ClassifierError", user_context |-> user_context]
  ELSE LET result == answer.text IN
    IF Contains(result, <<"|">>)
    THEN LET parts == Split(result, "|") IN
      IF Len(parts) # 2
      THEN [kind |-> "raise", error |-> "ValueError", user_context |-> user_context]
      ELSE [kind |-> "return",
            route |-> MatchRoute(Lower(Strip(parts[2]))),
            user_context |-> [k \in DOMAIN user_context \cup {"user_type"} |->
                               IF k = "user_type" THEN Strip(parts[1])
                               ELSE user_context[k]]]
    ELSE [kind |-> "return",
          route |-> MatchRoute(Lower(result)),
          user_context |-> user_context]

\* ------------------------------------------------------------------------
\* graph/workflow.py : create_workflow
\* ------------------------------------------------------------------------
Handlers == {"prospecting", "insights", "communication"}

Routes == Handlers \cup {"end"}

\* set_conditional_entry_point: route label -> node
EntryMap == [r \in Routes |-> IF r = "end" THEN END ELSE r]

\* an edge from the prospecting node to the insights node instead of END
EdgeTarget_Chained(n) == IF n = "prospecting" THEN "insights" ELSE END

\* add_edge(handler, END)
EdgeTarget(n) == END

\* ------------------------------------------------------------------------
\* tools/hybrid_search.py : the dataset
\* ------------------------------------------------------------------------
\* A row maps column names to values.  Text columns hold character
\* sequences; the signal bundle is a dict, or a text still to be parsed.
Columns == {"Prospect Business Name", "Primary Category", "City", "State",
            "BuzzBoard Data Parsed"}

Str(v) == [t |-> "str", v |-> v]

Num(n) == [t |-> "num", v |-> n]

None == [t |-> "none", v |-> NoValue]

Dict(d) == [kind |-> "dict", d |-> d]

Text(x) == [kind |-> "str", s |-> x]

List(items) == [kind |-> "list", items |-> items]

IntValue(n) == [kind |-> "int", v |-> n]

\* an exception leaving the function
Raise(error) == [raises |-> error]

Raised(result) == "raises" \in DOMAIN result

\* ast.literal_eval on the text of a bundle cell: the literal the text
\* denotes (a dict, a list holding a dict, a number), or an exception when
\* the text is no Python literal
literal_eval(x) ==
  CASE x = "{'SEM': 'Yes'}" ->
         [kind |-> "ok", value |-> Dict([k \in {"SEM"} |-> Str("Yes")])]
    [] x = "[{'SEM': 'Yes'}]" ->
         [kind |-> "ok", value |-> List(<<Dict([k \in {"SEM"} |-> Str("Yes")])>>)]
    [] x = "12" -> [kind |-> "ok", value |-> IntValue(12)]
    [] x = "Not Found" -> [kind |-> "raise", error |-> "SyntaxError"]
    [] OTHER -> [kind |-> "raise", error |-> "ValueError"]

MakeRow(name, cat, city, state, bb) ==
  [c \in Columns |->
     CASE c = "Prospect Business Name" -> name
       [] c = "Primary Category" -> cat
       [] c = "City" -> city
       [] c = "State" -> state
       [] OTHER -> bb]

\* the rows datasets are made of
RowPool ==
  { MakeRow(<<"n", "1">>, <<"A", "b">>, <<"d">>, <<"t">>,
            Dict([k \in {"Google Places", "Reviews (local and social)",
                         "FB latest_posts", "SEM"} |->
                    IF k = "Reviews (local and social)" THEN Num(15) ELSE Str("Yes")])),
    MakeRow(<<"n", "2">>, <<"a">>, <<"h">>, <<"t", "x">>, Text("Not Found")),
    MakeRow(<<"n", "3">>, <<"Computer", "Contract">>, <<"s">>, <<"c">>,
            Dict([k \in {"Google Places", "Reviews (local and social)"} |->
                    IF k = "Reviews (local and social)" THEN Str("many") ELSE Str("Yes")])),
    MakeRow(<<"n", "4">>, <<"a", "b">>, <<"s">>, <<"c">>,
            Dict([k \in {"Google Places", "Reviews (local and social)",
                         "FB latest_posts", "SEM"} |->
                    CASE k = "Reviews (local and social)" -> Num(12)
                      [] k = "SEM" -> Str("Yes")
                      [] OTHER -> Str("No")])) }

\* datasets: up to MaxRows rows, business names unique
Datasets ==
  {d \in SeqsUpTo(RowPool, MaxRows) :
     \A i, j \in 1..Len(d) : i # j => d[i] # d[j]}

\* ------------------------------------------------------------------------
\* tools/hybrid_search.py : structured filtering (lines 89-118)
\* ------------------------------------------------------------------------
\* pandas Series.str.contains(val, na=False, case=False) searches for val as
\* a regular expression (regex=True is the default): "." stands for any one
\* character, every other character of the model for itself.
PatternCharMatches(p, c) == p = "." \/ LowerChunk(p) = LowerChunk(c)

StrContains(text, val) ==
  \E i \in 0..(Len(text) - Len(val)) :
     \A j \in 1..Len(val) : PatternCharMatches(val[j], text[i + j])

\* the rescue tried for an empty exact match on any field
ApplyFilter_RescueAnyField(rows, f) ==
  IF f.field \notin Columns THEN rows
  ELSE LET val == Lower(f.value)
           col(r) == Lower(r[f.field])
           TestContains(r) == StrContains(col(r), val)
           TestEquals(r) == col(r) = val
           TestNotContains(r) == ~StrContains(col(r), val)
           TestNotEquals(r) == col(r) # val
       IN CASE f.operator = "contains" -> SelectSeq(rows, TestContains)
            [] f.operator = "equals" ->
                 LET exact_match == SelectSeq(rows, TestEquals)
                     fuzzy_match == SelectSeq(rows, TestContains)
                 IN IF exact_match = <<>>
                    THEN (IF fuzzy_match # <<>> THEN fuzzy_match ELSE exact_match)
                    ELSE exact_match
            [] f.operator = "not_contains" -> SelectSeq(rows, TestNotContains)
            [] f.operator = "not_equals" -> SelectSeq(rows, TestNotEquals)
            [] OTHER -> rows

\* one pass of the loop body, lines 92-116
ApplyFilter(rows, f) ==
  IF f.field \notin Columns THEN rows
  ELSE LET val == Lower(f.value)
           col(r) == Lower(r[f.field])
           TestContains(r) == StrContains(col(r), val)
           TestEquals(r) == col(r) = val
           TestNotContains(r) == ~StrContains(col(r), val)
           TestNotEquals(r) == col(r) # val
       IN CASE f.operator = "contains" -> SelectSeq(rows, TestContains)
            [] f.operator = "equals" ->
                 LET exact_match == SelectSeq(rows, TestEquals)
                     fuzzy_match == SelectSeq(rows, TestContains)
                 IN IF exact_match = <<>> /\ f.field = "Primary Category"
                    THEN (IF fuzzy_match # <<>> THEN fuzzy_match ELSE exact_match)
                    ELSE exact_match
            [] f.operator = "not_contains" -> SelectSeq(rows, TestNotContains)
            [] f.operator = "not_equals" -> SelectSeq(rows, TestNotEquals)
            [] OTHER -> rows

\* the loop of lines 92-116 over the filters in order
RECURSIVE ApplyFilters(_, _)
ApplyFilters(rows, filters) ==
  IF filters = <<>> THEN rows
  ELSE ApplyFilters(ApplyFilter(rows, Head(filters)), Tail(filters))

\* ------------------------------------------------------------------------
\* tools/hybrid_search.py : _analyze_prospect (lines 181-249)
\* ------------------------------------------------------------------------
\* lines 183-188: the signal bundle as a dict; the placeholder and text that
\* does not parse give the empty dict
BuzzboardValue(row) ==
  LET b == Get(row, "BuzzBoard Data Parsed", Dict(EmptyDict)) IN
    IF b.kind = "str"
    THEN IF b.s # "Not Found"
         THEN IF literal_eval(b.s).kind = "ok" THEN literal_eval(b.s).value
              ELSE Dict(EmptyDict)
         ELSE Dict(EmptyDict)
    ELSE b

\* buzzboard.get exists on a dict only: on any other object the first
\* buzzboard.get(...) raises AttributeError
HasGet(row) == BuzzboardValue(row).kind = "dict"

\* the dict the .get calls read
Buzzboard(row) == BuzzboardValue(row).d

IsYes(x) == x.t = "str" /\ x.v = "Yes"

IsNo(x) == x.t = "str" /\ x.v = "No"

\* 'phrase' in original_query.lower()
QueryHas(query, phrase) == Contains(Lower(query), <<phrase>>)

\* the local-presence clause applied whatever the query asks for
LowPresenceAsked_Always(query) == TRUE

\* lines 203-204: the condition of the local-presence clause
LowPresenceAsked(query) ==
  QueryHas(query, "low local presence") \/ QueryHas(query, "weak local presence")

HighSemTerms == {"high google ads", "high sem", "google ads spend", "high ads spend"}

HighSemAsked(query) == \E term \in HighSemTerms : QueryHas(query, term)

\* the sub-score summed with the weights of the SEO score
LocalPresenceScore_SeoWeights(bb) ==
  (IF IsYes(Get(bb, "Google Places", None)) THEN 4 ELSE 0)
  + (LET reviews == Get(bb, "Reviews (local and social)", None) IN
       IF reviews.t = "num" /\ reviews.v > ReviewThreshold THEN 3 ELSE 0)
  + (IF IsYes(Get(bb, "FB latest_posts", None)) THEN 1 ELSE 0)

\* lines 191-194
LocalPresenceScore(bb) ==
  (IF IsYes(Get(bb, "Google Places", None)) THEN 3 ELSE 0)
  + (LET reviews == Get(bb, "Reviews (local and social)", None) IN
       IF reviews.t = "num" /\ reviews.v > ReviewThreshold THEN 2 ELSE 0)
  + (IF IsYes(Get(bb, "FB latest_posts", None)) THEN 1 ELSE 0)

\* line 196
SemScore(bb) == IF IsYes(Get(bb, "SEM", None)) THEN 3 ELSE 0

\* lines 227-233
GeneralGaps(bb) ==
  (IF IsNo(Get(bb, "Google Places", Str("No"))) THEN <<"No Google Places Listing">> ELSE <<>>)
  \o (IF IsNo(Get(bb, "SEM", Str("No"))) THEN <<"No Paid Search Activity">> ELSE <<>>)
  \o (IF IsNo(Get(bb, "FB latest_posts", Str("No"))) THEN <<"Inactive Social Media">> ELSE <<>>)

FilteredOut(row) ==
  [name |-> row["Prospect Business Name"],
   Status |-> "Filtered out - No Google Ads activity found",
   relevance_score |-> 0]

\* lines 181-249
_analyze_prospect(row, original_query, relaxed) ==
  IF ~HasGet(row) THEN Raise("AttributeError") ELSE
  LET bb == Buzzboard(row)
      local_presence_score == LocalPresenceScore(bb)
      sem_score == SemScore(bb)
      lowAsked == LowPresenceAsked(original_query)
      semAsked == HighSemAsked(original_query)
      \* lines 203-210
      lowHit == lowAsked /\ local_presence_score <= 2
      score1 == IF lowHit THEN 1 + 3
                ELSE IF lowAsked /\ ~relaxed THEN 0
                ELSE 1
      gaps1 == IF lowHit THEN <<"Weak Local Presence">> ELSE <<>>
      opps1 == IF lowHit THEN <<"Improve Google My Business & Local SEO">> ELSE <<>>
      \* lines 212-216
      semHit == semAsked /\ sem_score >= 3
      score2 == IF semHit THEN score1 + 3 ELSE score1
      opps2 == IF semHit THEN Append(opps1, "Optimize Current SEM Campaigns") ELSE opps1
      \* lines 227-237
      gaps == gaps1 \o GeneralGaps(bb)
      relevance_score == IF relaxed /\ gaps # <<>> THEN score2 + Len(gaps) ELSE score2
  IN \* lines 217-225: the early return of the strict high-SEM exclusion
     IF semAsked /\ sem_score < 3 /\ ~relaxed
     THEN FilteredOut(row)
     ELSE [name |-> row["Prospect Business Name"],
           category |-> row["Primary Category"],
           location |-> <<row["City"], row["State"]>>,
           local_presence |-> local_presence_score,
           sem_activity |-> IF sem_score > 0 THEN "Active" ELSE "None",
           gaps |-> IF gaps # <<>> THEN gaps ELSE <<"Strong Digital Presence">>,
           opportunities |-> IF opps2 # <<>> THEN opps2
                             ELSE <<"Maintain Current Strategy">>,
           match_type |-> IF relaxed THEN "Relaxed" ELSE "Strict",
           relevance_score |-> relevance_score]

\* an analysis of one of the rows raises
AnyRaises(rows) == \E i \in 1..Len(rows) : ~HasGet(rows[i])

\* every row analysed in strict mode, whatever mode was asked for
AnalyzeAll_AlwaysStrict(rows, query, relaxed) ==
  [i \in 1..Len(rows) |-> _analyze_prospect(rows[i], query, FALSE)]

AnalyzeAll(rows, query, relaxed) ==
  [i \in 1..Len(rows) |-> _analyze_prospect(rows[i], query, relaxed)]

\* ------------------------------------------------------------------------
\* tools/hybrid_search.py : _try_broader_search (lines 146-179)
\* ------------------------------------------------------------------------
CategoryHas(row, stem) == StrContains(Lower(row["Primary Category"]), <<stem>>)

CategoriesOf(rows) == {rows[i]["Primary Category"] : i \in 1..Len(rows)}

CategoryCount(rows, c) ==
  Cardinality({i \in 1..Len(rows) : rows[i]["Primary Category"] = c})

\* the ten categories met first in the dataset instead of the ten most
\* frequent
CategoryCounts_FirstSeen(rows) ==
  LET cats == CategoriesOf(rows)
      top == IF Cardinality(cats) <= TopCategories THEN cats
             ELSE CHOOSE S \in SUBSET cats :
                    /\ Cardinality(S) = TopCategories
                    /\ \E k \in 1..Len(rows) : S = CategoriesOf(FirstN(rows, k))
  IN [c \in top |-> CategoryCount(rows, c)]

\* value_counts().head(10).to_dict(): the counts of ten most frequent
\* categories (all of them when there are at most ten)
CategoryCounts(rows) ==
  LET cats == CategoriesOf(rows)
      top == IF Cardinality(cats) <= TopCategories THEN cats
             ELSE CHOOSE S \in SUBSET cats :
                    /\ Cardinality(S) = TopCategories
                    /\ \A c \in S, e \in cats \ S :
                         CategoryCount(rows, c) >= CategoryCount(rows, e)
  IN [c \in top |-> CategoryCount(rows, c)]

_try_broader_search(df, query) ==
  LET IsComputer(r) == CategoryHas(r, "Computer")
      IsContract(r) == CategoryHas(r, "Contract")
      computer_matches == IF QueryHas(query, "computer")
                          THEN SelectSeq(df, IsComputer) ELSE <<>>
      contractor_matches == IF QueryHas(query, "contractor")
                            THEN SelectSeq(df, IsContract) ELSE <<>>
      broader_results ==
        AnalyzeAll(FirstN(computer_matches, BroaderRows), query, TRUE)
        \o AnalyzeAll(FirstN(contractor_matches, BroaderRows), query, TRUE)
  IN IF AnyRaises(FirstN(computer_matches, BroaderRows))
        \/ AnyRaises(FirstN(contractor_matches, BroaderRows))
     THEN Raise("AttributeError")
     ELSE IF broader_results # <<>>
     THEN FirstN(broader_results, TopResults)
     ELSE << [Status |-> "No exact matches found",
              Suggestion |-> "Try these available categories",
              AvailableCategories |-> CategoryCounts(df)] >>

\* ------------------------------------------------------------------------
\* tools/hybrid_search.py : find_prospects_hybrid (lines 67-144)
\* ------------------------------------------------------------------------
\* The extractor chain raises, answers with no object, or gives a FilterList.
ExtractorRaises == [kind |-> "raise"]

ExtractorNone == [kind |-> "no_object"]

ExtractorFilters(fl) == [kind |-> "ok", filters |-> fl]

\* results.sort(key=relevance_score, reverse=True): a stable sort
RECURSIVE InsertDesc(_, _)
InsertDesc(sorted, x) ==
  IF sorted = <<>> THEN <<x>>
  ELSE IF Head(sorted).relevance_score >= x.relevance_score
       THEN <<Head(sorted)>> \o InsertDesc(Tail(sorted), x)
       ELSE <<x>> \o sorted

RECURSIVE SortDesc(_)
SortDesc(results) ==
  IF results = <<>> THEN <<>>
  ELSE InsertDesc(SortDesc(SubSeq(results, 1, Len(results) - 1)),
                  results[Len(results)])

\* a zero relevance kept among the strict results
Relevant_NonNegative(a) == a.relevance_score >= 0

\* line 129: if analysis.get('relevance_score', 0) > 0
Relevant(a) == a.relevance_score > 0

FailedStatus == <<[Status |-> "Failed to process query"]>>

\* an extraction failure treated as an empty filter list
ExtractedFilters_Lenient(extraction) ==
  IF extraction.kind = "ok" THEN ExtractorFilters(extraction.filters)
  ELSE ExtractorFilters(<<>>)

\* lines 81-86: the extraction as the try block leaves it
ExtractedFilters(extraction) ==
  IF extraction.kind = "ok" THEN ExtractorFilters(extraction.filters)
  ELSE ExtractorRaises

\* the fallback run over every filtered row
RelaxedFallback_AllRows(filtered_df, query) == AnalyzeAll(filtered_df, query, TRUE)

\* lines 131-137: the first 5 filtered rows analysed in relaxed mode
RelaxedFallback(filtered_df, query) ==
  AnalyzeAll(FirstN(filtered_df, FallbackRows), query, TRUE)

\* The call: what it returns, the stages it went through, and the
\* intermediate row sets (filtered_df, the strict results).
find_prospects_hybrid(df, query, extraction) ==
  LET ext == ExtractedFilters(extraction) IN
  IF ext.kind # "ok"
  THEN [out |-> FailedStatus, stages |-> {"extract"},
        filtered_df |-> <<>>, strict |-> <<>>]
  ELSE
    LET filtered_df == ApplyFilters(df, ext.filters) IN
    IF filtered_df = <<>>
    THEN [out |-> _try_broader_search(df, query),
          stages |-> {"extract", "filter", "broader"},
          filtered_df |-> filtered_df, strict |-> <<>>]
    ELSE IF AnyRaises(filtered_df)
    THEN [out |-> Raise("AttributeError"),
          stages |-> {"extract", "filter", "score"},
          filtered_df |-> filtered_df, strict |-> <<>>]
    ELSE
      LET strict == SelectSeq(AnalyzeAll(filtered_df, query, FALSE), Relevant)
          results == IF strict = <<>>
                     THEN RelaxedFallback(filtered_df, query)
                     ELSE strict
          sorted == SortDesc(results)
      IN [out |-> IF sorted # <<>> THEN FirstN(sorted, TopResults)
                  ELSE <<[Status |-> "No prospects found matching criteria"]>>,
          stages |-> {"extract", "filter", "score"}
                       \cup (IF strict = <<>> THEN {"relaxed"} ELSE {}),
          filtered_df |-> filtered_df, strict |-> strict]

\* ------------------------------------------------------------------------
\* tools/hybrid_search.py : get_prospect_details and its helpers
\* (lines 251-449)
\* ------------------------------------------------------------------------
\* lines 292-299
_calculate_seo_score(buzzboard) ==
  LET score ==
        (IF IsYes(Get(buzzboard, "Google Places", None)) THEN 4 ELSE 0)
        + (IF IsYes(Get(buzzboard, "SEM", None)) THEN 3 ELSE 0)
        + (LET reviews == Get(buzzboard, "Reviews (local and social)", Num(0)) IN
             IF reviews.t = "num" /\ reviews.v > 20 THEN 3 ELSE 0)
  IN IF score < 10 THEN score ELSE 10

\* lines 301-307
_calculate_social_score(buzzboard) ==
  LET score ==
        (IF IsYes(Get(buzzboard, "FB latest_posts", None)) THEN 5 ELSE 0)
        + (IF IsYes(Get(buzzboard, "Instagram", None)) THEN 3 ELSE 0)
        + (IF IsYes(Get(buzzboard, "Twitter", None)) THEN 2 ELSE 0)
  IN IF score < 10 THEN score ELSE 10

\* line 266 and the "{d_score:.1f}" of line 280: the mean of the two scores
\* as its whole part and its one decimal
DScore(seo_score, social_score) ==
  [whole |-> (seo_score + social_score) \div 2,
   tenth |-> 5 * ((seo_score + social_score) % 2)]

\* lines 309-342
_generate_swot_analysis(buzzboard) ==
  LET has(k) == IsYes(Get(buzzboard, k, None))
      strengths ==
        (IF has("Google Places")
         THEN <<"Strong local presence with Google Places listing">> ELSE <<>>)
        \o (IF has("SEM") THEN <<"Active in paid search advertising">> ELSE <<>>)
        \o (IF has("FB latest_posts")
            THEN <<"Maintains active social media presence">> ELSE <<>>)
      weaknesses ==
        (IF ~has("Google Places")
         THEN <<"Missing Google Places listing - invisible in local searches">> ELSE <<>>)
        \o (IF ~has("SEM")
            THEN <<"No paid search presence - missing potential leads">> ELSE <<>>)
        \o (IF ~has("FB latest_posts")
            THEN <<"Inactive social media - poor customer engagement">> ELSE <<>>)
      opportunities ==
        (IF strengths = <<>> THEN <<"Complete digital transformation opportunity">> ELSE <<>>)
        \o (IF ~has("Google Places")
            THEN <<"Establish Google My Business for local visibility">> ELSE <<>>)
        \o (IF ~has("SEM") THEN <<"Launch targeted Google Ads campaigns">> ELSE <<>>)
  IN [Strengths |-> IF strengths # <<>> THEN strengths ELSE <<"Limited digital presence">>,
      Weaknesses |-> weaknesses,
      Opportunities |-> opportunities,
      Threats |-> <<"Competitors with stronger digital presence">>]

\* 'Google Places' in str(...), 'SEM' in str(...): of the three weakness
\* texts only the first holds "Google Places", and none holds "SEM"
WeaknessMentions(weaknesses, word) ==
  /\ word = "Google Places"
  /\ \E i \in 1..Len(weaknesses) :
       weaknesses[i] = "Missing Google Places listing - invisible in local searches"

\* lines 344-353
_get_engagement_strategy(swot) ==
  IF Len(swot.Weaknesses) >= 3
  THEN "Lead with comprehensive digital marketing audit. Focus on immediate wins like Google My Business setup."
  ELSE IF WeaknessMentions(swot.Weaknesses, "Google Places")
  THEN "Start conversation around local SEO and Google My Business optimization."
  ELSE IF WeaknessMentions(swot.Weaknesses, "SEM")
  THEN "Position paid search solutions to capture competitor traffic."
  ELSE "Focus on optimization and advanced digital marketing strategies."

\* "{x:.0f}" of the float count / total * 100: the nearest whole number, a
\* tie going to the even one
PercentText(count, total) ==
  LET q == (count * 100) \div total
      r == (count * 100) % total
  IN IF 2 * r > total THEN q + 1
     ELSE IF 2 * r < total THEN q
     ELSE IF q % 2 = 0 THEN q ELSE q + 1

\* lines 364-367: the rows of the category and state of the prospect, the
\* values compared as they are
SimilarBusinesses(rows, prospect_data) ==
  LET Same(r) == /\ r["Primary Category"] = prospect_data["Primary Category"]
                 /\ r["State"] = prospect_data["State"]
  IN SelectSeq(rows, Same)

\* lines 379-393
Adoption(similar, signal) ==
  Cardinality({i \in 1..Len(similar) :
                 IsYes(Get(Buzzboard(similar[i]), signal, None))})

\* the Google Places statement made from half of the peers on
_analyze_market_trends_HalfIsHigh(rows, prospect_data) ==
  LET similar_businesses == SimilarBusinesses(rows, prospect_data)
      total_similar == Len(similar_businesses)
      gp == Adoption(similar_businesses, "Google Places")
      sem == Adoption(similar_businesses, "SEM")
      social == Adoption(similar_businesses, "FB latest_posts")
      trends ==
        (IF gp * 100 > 50 * total_similar
         THEN <<[trend |-> "High Google Places adoption",
                 percent |-> PercentText(gp, total_similar)]>> ELSE <<>>)
        \o (IF sem * 100 > 50 * total_similar
            THEN <<[trend |-> "Growing SEM usage",
                    percent |-> PercentText(sem, total_similar)]>> ELSE <<>>)
        \o (IF social * 100 < 30 * total_similar
            THEN <<[trend |-> "Low social media presence",
                    percent |-> PercentText(social, total_similar)]>> ELSE <<>>)
      competitors ==
        <<[similar |-> total_similar - 1, state |-> prospect_data["State"]]>>
        \o (IF gp * 100 > 80 * total_similar
            THEN <<[note |-> "Most competitors have strong local SEO presence"]>> ELSE <<>>)
        \o (IF sem * 100 > 60 * total_similar
            THEN <<[note |-> "Majority using paid search - competitive landscape"]>> ELSE <<>>)
  IN IF total_similar <= 1
     THEN [trends |-> <<[trend |-> "Limited market data available"]>>,
           competitors |-> <<[note |-> "Market analysis needs more data"]>>]
     ELSE IF AnyRaises(similar_businesses)
     THEN Raise("AttributeError")
     ELSE [trends |-> IF trends # <<>> THEN trends
                      ELSE <<[trend |-> "Market shows standard digital adoption"]>>,
           competitors |-> competitors]

\* lines 358-413.  A statement is a record of its text, with the percentage
\* as printed when it carries one; count / total * 100 > t is compared as
\* count * 100 > t * total.
_analyze_market_trends(rows, prospect_data) ==
  LET similar_businesses == SimilarBusinesses(rows, prospect_data)
      total_similar == Len(similar_businesses)
      gp == Adoption(similar_businesses, "Google Places")
      sem == Adoption(similar_businesses, "SEM")
      social == Adoption(similar_businesses, "FB latest_posts")
      trends ==
        (IF gp * 100 > 70 * total_similar
         THEN <<[trend |-> "High Google Places adoption",
                 percent |-> PercentText(gp, total_similar)]>> ELSE <<>>)
        \o (IF sem * 100 > 50 * total_similar
            THEN <<[trend |-> "Growing SEM usage",
                    percent |-> PercentText(sem, total_similar)]>> ELSE <<>>)
        \o (IF social * 100 < 30 * total_similar
            THEN <<[trend |-> "Low social media presence",
                    percent |-> PercentText(social, total_similar)]>> ELSE <<>>)
      competitors ==
        <<[similar |-> total_similar - 1, state |-> prospect_data["State"]]>>
        \o (IF gp * 100 > 80 * total_similar
            THEN <<[note |-> "Most competitors have strong local SEO presence"]>> ELSE <<>>)
        \o (IF sem * 100 > 60 * total_similar
            THEN <<[note |-> "Majority using paid search - competitive landscape"]>> ELSE <<>>)
  IN IF total_similar <= 1
     THEN [trends |-> <<[trend |-> "Limited market data available"]>>,
           competitors |-> <<[note |-> "Market analysis needs more data"]>>]
     ELSE IF AnyRaises(similar_businesses)
     THEN Raise("AttributeError")
     ELSE [trends |-> IF trends # <<>> THEN trends
                      ELSE <<[trend |-> "Market shows standard digital adoption"]>>,
           competitors |-> competitors]

\* any(word in category for word in [...]) on the lower-cased category
CategoryMentions(prospect_data, words) ==
  \E w \in words : Contains(Lower(prospect_data["Primary Category"]), <<w>>)

\* lines 415-449
_get_optimal_timing(prospect_data, swot_analysis) ==
  LET gaps_count == Len(swot_analysis.Weaknesses)
      optimal_timing ==
        IF CategoryMentions(prospect_data, {"computer", "it", "tech", "software"})
        THEN <<"Tuesday-Thursday", "10am-2pm EST",
               "B2B tech businesses most responsive mid-week">>
        ELSE IF CategoryMentions(prospect_data, {"contractor", "plumbing", "electrical"})
        THEN <<"Monday-Wednesday", "8am-11am EST",
               "Service businesses check emails early morning">>
        ELSE <<"Tuesday-Thursday", "10am-3pm EST", "Standard business hours">>
  IN [optimal_timing |-> optimal_timing,
      urgency |-> IF gaps_count >= 3 THEN "Send immediately"
                  ELSE IF gaps_count >= 2 THEN "Send within 24 hours"
                  ELSE "Send within 2-3 days",
      follow_up_schedule |-> IF gaps_count >= 3 THEN "Follow up in 3-5 days"
                             ELSE IF gaps_count >= 2 THEN "Follow up in 1 week"
                             ELSE "Follow up in 2 weeks"]

\* a name matched when the given name is a part of it
NameMatches_Substring(rows, prospect_name) ==
  LET Same(r) == Contains(Lower(r["Prospect Business Name"]), Lower(prospect_name))
  IN SelectSeq(rows, Same)

\* line 253: the rows whose lower-cased name is the lower-cased given name
NameMatches(rows, prospect_name) ==
  LET Same(r) == Lower(r["Prospect Business Name"]) = Lower(prospect_name)
  IN SelectSeq(rows, Same)

\* lines 251-290: the report on the first row of that name, or None
get_prospect_details(rows, prospect_name) ==
  LET match == NameMatches(rows, prospect_name) IN
  IF match # <<>>
  THEN LET prospect_data == match[1]
           buzzboard == Buzzboard(prospect_data)
           seo_score == _calculate_seo_score(buzzboard)
           social_score == _calculate_social_score(buzzboard)
           swot == _generate_swot_analysis(buzzboard)
           market_analysis == _analyze_market_trends(rows, prospect_data)
       IN IF ~HasGet(prospect_data) \/ Raised(market_analysis)
          THEN Raise("AttributeError")
          ELSE
          ("Prospect Business Name" :> prospect_data["Prospect Business Name"])
          @@ ("Primary Category" :> prospect_data["Primary Category"])
          @@ ("Location" :> <<prospect_data["City"], prospect_data["State"]>>)
          @@ ("BuzzBoard Metrics" :>
                (("D-Score" :> DScore(seo_score, social_score))
                 @@ ("SEO Score" :> seo_score)
                 @@ ("Social Media Score" :> social_score)))
          @@ ("SWOT Analysis" :> swot)
          @@ ("Market Trends" :> market_analysis.trends)
          @@ ("Competitor Analysis" :> market_analysis.competitors)
          @@ ("Communication Timing" :> _get_optimal_timing(prospect_data, swot))
          @@ ("Engagement Strategy" :> _get_engagement_strategy(swot))
  ELSE None

\* ------------------------------------------------------------------------
\* State
\* ------------------------------------------------------------------------
VARIABLES
  history,        \* conversation_memory["history"]: the list of entries
  user_context,   \* conversation_memory["user_context"]
  pc,             \* "idle", or the position of the turn in the graph
  visited,        \* the handler nodes entered in the current turn, in order
  steps,          \* graph steps taken in the current turn
  turnNo,         \* number of run_conversation calls made so far
  arrivals,       \* the queries received since the memory was last cleared
  prompt,         \* what route_requests handed to the classifier
  route,          \* the route label route_requests returned in this turn
  outcome,        \* how the last run_conversation call ended
  failure,        \* the exception that ended the last call, if one did
  output_data,    \* the value run_conversation returns
  answer_kind,    \* whether the classifier answered or raised in this turn
  r_answer,       \* route_requests checked alone: the classifier's answer
  r_before,       \* route_requests checked alone: user_context before the call
  r_out,          \* route_requests checked alone: its outcome
  df,             \* HybridSearchToolBox.df: the dataset, a list of rows
  query,          \* the query of the last find_prospects_hybrid call
  extraction,     \* what the extractor chain gave for that query
  found,          \* what the call returned and the stages it went through
  again,          \* what a second call with the same query and filters returned
  prospect,       \* _analyze_prospect checked alone: the row it is given
  relaxed_mode,   \* _analyze_prospect checked alone: its relaxed flag
  analysis,       \* _analyze_prospect checked alone: what it returned
  prospect_name,  \* the name given to the last get_prospect_details call
  report,         \* what that call returned
  w_pc,           \* concurrent turns: where each thread is in run_conversation
  w_query,        \* concurrent turns: the query each thread was called with
  w_slice         \* concurrent turns: the list each thread built at line 26

turnVars == <<history, user_context, pc, visited, steps, turnNo, arrivals,
              prompt, route, outcome, failure, output_data, answer_kind>>

routerVars == <<r_answer, r_before, r_out>>

searchVars == <<df, query, extraction, found, again>>

scoreVars == <<prospect, relaxed_mode, analysis>>

detailVars == <<prospect_name, report>>

workerVars == <<w_pc, w_query, w_slice>>

nonTurnVars == <<routerVars, searchVars, scoreVars, detailVars, workerVars>>

\* ------------------------------------------------------------------------
\* utils/helpers.py : run_conversation, clear_conversation_memory
\* ------------------------------------------------------------------------
\* The classifier answers a turn can meet.
TurnAnswers ==
  { ClassifierRaises,
    ClassifierText(<<"SALESREP", "|", "prospecting">>),
    ClassifierText(<<"DEMANDGEN", "|", " ", "Insights">>),
    ClassifierText(<<"SALESREP", "|", "communication">>),
    ClassifierText(<<"DEMANDGEN", "|", "end">>),
    ClassifierText(<<"goodbye">>),
    ClassifierText(<<"SALESREP", "|", "insights", "|", "urgent">>) }

\* the cut keeping the first 10 entries instead of the last 10
Truncate_KeepOldest(h) == IF Len(h) > HistoryLimit THEN FirstN(h, HistoryLimit) ELSE h

\* lines 24-26: keep only the last 10 interactions
Truncate(h) == IF Len(h) > HistoryLimit THEN LastN(h, HistoryLimit) ELSE h

QueriesOf(h) == [i \in 1..Len(h) |-> h[i].query]

\* line 49: conversation_memory["history"][-1]["response"] = ...
SetLastResponse(h, resp) ==
  [h EXCEPT ![Len(h)] =
     [k \in DOMAIN h[Len(h)] \cup {"response"} |->
        IF k = "response" THEN resp ELSE h[Len(h)][k]]]

\* lines 16-37: the query is appended with its timestamp, the list is cut to
\* the last 10, and the initial graph state is built.  The k-th call carries
\* the query k and reads the clock at k; run_query calls only with a
\* compiled app.
StartTurn ==
  /\ pc = "idle"
  /\ turnNo < MaxTurns
  /\ LET q == turnNo + 1 IN
       /\ history' = Truncate(Append(history, [query |-> q, timestamp |-> q]))
       /\ arrivals' = Append(arrivals, q)
       /\ turnNo' = q
  /\ pc' = "start"
  /\ visited' = <<>>
  /\ steps' = 0
  /\ route' = NoValue
  /\ prompt' = NoCall
  /\ outcome' = "running"
  /\ failure' = NoValue
  /\ output_data' = EmptyDict
  /\ answer_kind' = NoValue
  /\ UNCHANGED <<user_context>>
  /\ UNCHANGED nonTurnVars

\* The conditional entry point: route_requests asks the classifier (router.py
\* lines 35-41) and the graph moves to the node the entry map gives for the
\* returned label.  An exception leaves app.stream and run_conversation.
Route ==
  /\ pc = "start"
  /\ \E answer \in TurnAnswers :
       LET r == route_requests(answer, user_context) IN
         /\ answer_kind' = answer.kind
         /\ prompt' = [last_message |->
                          [previous |-> QueriesOf(LastN(history, ContextWindow)),
                           current |-> history[Len(history)].query],
                       conversation_history |->
                          IF history # <<>> THEN LastN(history, ContextWindow)
                          ELSE <<>>]
         /\ IF r.kind = "raise"
            THEN /\ pc' = "idle"
                 /\ outcome' = "raised"
                 /\ failure' = r.error
                 /\ UNCHANGED <<user_context, route, visited, steps>>
            ELSE /\ user_context' = r.user_context
                 /\ route' = r.route
                 /\ pc' = EntryMap[r.route]
                 /\ visited' = IF EntryMap[r.route] \in Handlers
                               THEN Append(visited, EntryMap[r.route])
                               ELSE visited
                 /\ steps' = steps + 1
                 /\ UNCHANGED <<outcome, failure>>
  /\ UNCHANGED <<history, turnNo, arrivals, output_data>>
  /\ UNCHANGED nonTurnVars

\* A handler node runs (agents/base.py agent_node).  When it returns, the
\* stream yields its event, run_conversation keeps the value and writes the
\* response on the last entry of the history (lines 40-49), and the graph
\* follows the node's edge.  When it raises, the exception leaves the call.
Handle ==
  /\ pc \in Handlers
  /\ steps < RecursionLimit
  /\ \/ /\ output_data' = [k \in {"agent_out"} |-> [node |-> pc, answers |-> turnNo]]
        /\ history' = SetLastResponse(history, [answers |-> turnNo])
        /\ pc' = EdgeTarget(pc)
        /\ visited' = IF EdgeTarget(pc) \in Handlers
                      THEN Append(visited, EdgeTarget(pc))
                      ELSE visited
        /\ steps' = steps + 1
        /\ UNCHANGED <<outcome, failure>>
     \/ /\ pc' = "idle"
        /\ outcome' = "raised"
        /\ failure' = "HandlerError"
        /\ UNCHANGED <<history, output_data, visited, steps>>
  /\ UNCHANGED <<user_context, turnNo, arrivals, prompt, route, answer_kind>>
  /\ UNCHANGED nonTurnVars

\* line 53: the stream is exhausted at END and output_data is returned
Finish ==
  /\ pc = END
  /\ pc' = "idle"
  /\ outcome' = "returned"
  /\ UNCHANGED <<history, user_context, visited, steps, turnNo, arrivals,
                 prompt, route, failure, output_data, answer_kind>>
  /\ UNCHANGED nonTurnVars

\* The caller gives the turn up while it is in flight (main.py catches the
\* KeyboardInterrupt): nothing is undone.
Abandon ==
  /\ pc # "idle"
  /\ pc' = "idle"
  /\ outcome' = "abandoned"
  /\ UNCHANGED <<history, user_context, visited, steps, turnNo, arrivals,
                 prompt, route, failure, output_data, answer_kind>>
  /\ UNCHANGED nonTurnVars

\* a reset that empties the history and leaves the user context in place
clear_conversation_memory_HistoryOnly ==
  /\ pc = "idle"
  /\ history # <<>> \/ DOMAIN user_context # {}
  /\ history' = <<>>
  /\ arrivals' = <<>>
  /\ UNCHANGED <<user_context, pc, visited, steps, turnNo, prompt, route,
                 outcome, failure, output_data, answer_kind>>
  /\ UNCHANGED nonTurnVars

\* lines 59-62
clear_conversation_memory ==
  /\ pc = "idle"
  /\ history # <<>> \/ DOMAIN user_context # {}
  /\ history' = <<>>
  /\ user_context' = EmptyDict
  /\ arrivals' = <<>>
  /\ UNCHANGED <<pc, visited, steps, turnNo, prompt, route, outcome, failure,
                 output_data, answer_kind>>
  /\ UNCHANGED nonTurnVars

TurnInit ==
  /\ history = <<>>
  /\ user_context = EmptyDict
  /\ pc = "idle"
  /\ visited = <<>>
  /\ steps = 0
  /\ turnNo = 0
  /\ arrivals = <<>>
  /\ prompt = NoCall
  /\ route = NoValue
  /\ outcome = "none"
  /\ failure = NoValue
  /\ output_data = EmptyDict
  /\ answer_kind = NoValue

RouterIdle ==
  /\ r_answer = NoCall
  /\ r_before = EmptyDict
  /\ r_out = NoCall

SearchIdle ==
  /\ query = <<>>
  /\ extraction = NoCall
  /\ found = NoCall
  /\ again = NoCall

ScoreIdle ==
  /\ prospect = NoCall
  /\ relaxed_mode = FALSE
  /\ analysis = NoCall

DetailIdle ==
  /\ prospect_name = <<>>
  /\ report = NoCall

\* the threads that call run_conversation at the same time
Workers == {"t1", "t2"}

WorkersIdle ==
  /\ w_pc = [t \in Workers |-> "idle"]
  /\ w_query = [t \in Workers |-> 0]
  /\ w_slice = [t \in Workers |-> <<>>]

vars == <<history, user_context, pc, visited, steps, turnNo, arrivals, prompt,
          route, outcome, failure, output_data, answer_kind,
          r_answer, r_before, r_out, df, query, extraction, found, again,
          prospect, relaxed_mode, analysis, prospect_name, report,
          w_pc, w_query, w_slice>>

Init ==
  /\ TurnInit
  /\ RouterIdle
  /\ df = <<>>
  /\ SearchIdle
  /\ ScoreIdle
  /\ DetailIdle
  /\ WorkersIdle

Next ==
  \/ StartTurn
  \/ Route
  \/ Handle
  \/ Finish
  \/ Abandon
  \/ clear_conversation_memory

Spec == Init /\ [][Next]_vars

\* ------------------------------------------------------------------------
\* route_requests on its own, over every classifier answer of bounded length
\* ------------------------------------------------------------------------
RespChunks == {"|", " ", "PROSPECTING", "insights", "Communication", "bye"}

RouterAnswers ==
  {ClassifierRaises} \cup {ClassifierText(t) : t \in SeqsUpTo(RespChunks, MaxRespLen)}

\* The user_context mappings a call can find in the graph state.
RouterContexts == {EmptyDict, [k \in {"user_type"} |-> <<"DEMANDGEN">>]}

\* One call of route_requests on the graph state of a turn.
RouterCall ==
  /\ r_answer = NoCall
  /\ \E answer \in RouterAnswers :
       LET r == route_requests(answer, user_context) IN
         /\ r_answer' = answer
         /\ r_before' = user_context
         /\ r_out' = r
         /\ user_context' = r.user_context
  /\ UNCHANGED <<history, pc, visited, steps, turnNo, arrivals, prompt, route,
                 outcome, failure, output_data, answer_kind>>
  /\ UNCHANGED <<searchVars, scoreVars, detailVars, workerVars>>

\* The next call is made on a graph state built anew.
RouterReset ==
  /\ r_answer # NoCall
  /\ r_answer' = NoCall
  /\ r_before' = EmptyDict
  /\ r_out' = NoCall
  /\ user_context' \in RouterContexts
  /\ UNCHANGED <<history, pc, visited, steps, turnNo, arrivals, prompt, route,
                 outcome, failure, output_data, answer_kind>>
  /\ UNCHANGED <<searchVars, scoreVars, detailVars, workerVars>>

RouterNext ==
  \/ RouterCall
  \/ RouterReset

SpecRouter == Init /\ [][RouterNext]_vars

\* ------------------------------------------------------------------------
\* find_prospects_hybrid on its own, over bounded datasets, queries and
\* extracted filters
\* ------------------------------------------------------------------------
\* the query texts: with and without each phrase and stem the scoring and
\* the broader search look for, alone and combined
Queries ==
  { <<>>,
    <<"find">>,
    <<"LOW LOCAL PRESENCE">>,
    <<"find", "weak local presence">>,
    <<"High SEM">>,
    <<"Google Ads Spend", "find">>,
    <<"LOW LOCAL PRESENCE", "High SEM">>,
    <<"computer">>,
    <<"Contractor">>,
    <<"computer", "Contractor">>,
    <<"weak local presence", "computer">> }

Cond(field, operator, value) == [field |-> field, operator |-> operator, value |-> value]

Operators == {"contains", "not_contains", "equals", "not_equals"}

\* the conditions the extractor can emit: on the category, on the state, and
\* on a column the dataset does not have
Conditions ==
  {Cond("Primary Category", op, <<"A">>) : op \in Operators}
  \cup {Cond("Primary Category", "equals", <<"a", "b">>),
        Cond("Primary Category", "contains", <<".">>),
        Cond("State", "equals", <<"T">>),
        Cond("State", "not_contains", <<"T">>),
        Cond("Revenue", "equals", <<"a">>)}

Extractions ==
  {ExtractorRaises, ExtractorNone}
  \cup {ExtractorFilters(fl) : fl \in SeqsUpTo(Conditions, MaxFilters)}

\* One call of the tool on the loaded dataset.
FindProspects ==
  /\ found = NoCall
  /\ \E q \in Queries, e \in Extractions :
       /\ query' = q
       /\ extraction' = e
       /\ found' = find_prospects_hybrid(df, q, e)
  /\ UNCHANGED <<df, again>>
  /\ UNCHANGED <<turnVars, routerVars, scoreVars, detailVars, workerVars>>

\* The result is handed to the agent; the toolbox is ready for the next call.
SearchReturn ==
  /\ found # NoCall
  /\ query' = <<>>
  /\ extraction' = NoCall
  /\ found' = NoCall
  /\ again' = NoCall
  /\ UNCHANGED df
  /\ UNCHANGED <<turnVars, routerVars, scoreVars, detailVars, workerVars>>

SearchInit ==
  /\ TurnInit
  /\ RouterIdle
  /\ df \in Datasets
  /\ SearchIdle
  /\ ScoreIdle
  /\ DetailIdle
  /\ WorkersIdle

SearchNext ==
  \/ FindProspects
  \/ SearchReturn

SpecSearch == SearchInit /\ [][SearchNext]_vars

\* ------------------------------------------------------------------------
\* find_prospects_hybrid on datasets longer than the cuts of the pipeline
\* ------------------------------------------------------------------------
YesNo == {Str("Yes"), Str("No")}

\* review counts at and around the thresholds of the scores, and a count
\* that is not a number
ReviewValues == {Num(10), Num(11), Num(20), Num(21), Str("many")}

Bundle(gp, reviews, fb, sem) ==
  [k \in {"Google Places", "Reviews (local and social)", "FB latest_posts", "SEM"} |->
     CASE k = "Google Places" -> gp
       [] k = "Reviews (local and social)" -> reviews
       [] k = "FB latest_posts" -> fb
       [] OTHER -> sem]

\* what a row of a long dataset can be: the rows of RowPool, and a business
\* of a computer category with every signal present
BigProfiles ==
  RowPool \cup
  { MakeRow(<<"n", "5">>, <<"Computer">>, <<"s">>, <<"c">>,
            Dict(Bundle(Str("Yes"), Num(15), Str("Yes"), Str("Yes")))) }

BigPatterns ==
  {<<a>> : a \in BigProfiles} \cup {<<a, b>> : a, b \in BigProfiles}

\* n rows taking their category, place and signals from the pattern in
\* turn, each under a name of its own
PatternData(p, n) ==
  [i \in 1..n |->
     [p[((i - 1) % Len(p)) + 1] EXCEPT !["Prospect Business Name"] = <<"n", ToString(i)>>]]

\* n rows without signals: one category per row up to the eleventh, which
\* every later row shares
ManyCategories(n) ==
  [i \in 1..n |->
     MakeRow(<<"n", ToString(i)>>,
             <<"k", ToString(IF i <= TopCategories THEN i ELSE TopCategories + 1)>>,
             <<"s">>, <<"c">>, Text("Not Found"))]

BigDatasets ==
  {PatternData(p, n) : p \in BigPatterns, n \in 0..MaxBigRows}
  \cup {ManyCategories(n) : n \in 0..MaxBigRows}

\* the extractor gives no condition, one on the category, or one on the state
\* (which no row, or every row, or some rows satisfy)
BigExtractions ==
  {ExtractorRaises, ExtractorFilters(<<>>)}
  \cup {ExtractorFilters(<<c>>) :
          c \in {Cond("State", "equals", <<"z">>),
                 Cond("State", "equals", <<"c">>),
                 Cond("Primary Category", "contains", <<"A">>)}}

\* the call that keeps the filtered rows as the dataset
FindProspectsBig_InPlace ==
  /\ found = NoCall
  /\ \E q \in Queries, e \in BigExtractions :
       /\ query' = q
       /\ extraction' = e
       /\ found' = find_prospects_hybrid(df, q, e)
       /\ df' = IF e.kind = "ok" THEN ApplyFilters(df, e.filters) ELSE df
  /\ UNCHANGED again
  /\ UNCHANGED <<turnVars, routerVars, scoreVars, detailVars, workerVars>>

\* One call of the tool on a long dataset.
FindProspectsBig ==
  /\ found = NoCall
  /\ \E q \in Queries, e \in BigExtractions :
       /\ query' = q
       /\ extraction' = e
       /\ found' = find_prospects_hybrid(df, q, e)
  /\ UNCHANGED <<df, again>>
  /\ UNCHANGED <<turnVars, routerVars, scoreVars, detailVars, workerVars>>

SearchBigInit ==
  /\ TurnInit
  /\ RouterIdle
  /\ df \in BigDatasets
  /\ SearchIdle
  /\ ScoreIdle
  /\ DetailIdle
  /\ WorkersIdle

SearchBigNext ==
  \/ FindProspectsBig
  \/ SearchReturn

SpecSearchBig == SearchBigInit /\ [][SearchBigNext]_vars

\* ------------------------------------------------------------------------
\* find_prospects_hybrid called twice with one query and one extraction
\* ------------------------------------------------------------------------
\* The second call: the query and the pinned extraction of the first, on the
\* dataset as the first call left it.
CallAgain ==
  /\ found # NoCall
  /\ again = NoCall
  /\ again' = find_prospects_hybrid(df, query, extraction)
  /\ UNCHANGED <<df, query, extraction, found>>
  /\ UNCHANGED <<turnVars, routerVars, scoreVars, detailVars, workerVars>>

RepeatNext ==
  \/ FindProspectsBig
  \/ CallAgain
  \/ SearchReturn

SpecRepeat == SearchBigInit /\ [][RepeatNext]_vars

\* ------------------------------------------------------------------------
\* _analyze_prospect on its own, over every combination of the signals
\* ------------------------------------------------------------------------
\* one business under every combination of its signals, and with the
\* placeholder in place of the bundle
ScoreRows ==
  {MakeRow(<<"n", "1">>, <<"a">>, <<"d">>, <<"t">>, Dict(Bundle(gp, reviews, fb, sem))) :
     gp \in YesNo, reviews \in ReviewValues, fb \in YesNo, sem \in YesNo}
  \cup {MakeRow(<<"n", "1">>, <<"a">>, <<"d">>, <<"t">>, Text("Not Found"))}

\* One call of _analyze_prospect.
AnalyzeProspect ==
  /\ analysis = NoCall
  /\ \E r \in ScoreRows, q \in Queries, m \in BOOLEAN :
       /\ prospect' = r
       /\ query' = q
       /\ relaxed_mode' = m
       /\ analysis' = _analyze_prospect(r, q, m)
  /\ UNCHANGED <<df, extraction, found, again>>
  /\ UNCHANGED <<turnVars, routerVars, detailVars, workerVars>>

\* The analysis is handed back to the caller.
ScoreReturn ==
  /\ analysis # NoCall
  /\ prospect' = NoCall
  /\ query' = <<>>
  /\ relaxed_mode' = FALSE
  /\ analysis' = NoCall
  /\ UNCHANGED <<df, extraction, found, again>>
  /\ UNCHANGED <<turnVars, routerVars, detailVars, workerVars>>

ScoreNext ==
  \/ AnalyzeProspect
  \/ ScoreReturn

SpecScore == Init /\ [][ScoreNext]_vars

\* ------------------------------------------------------------------------
\* get_prospect_details on its own, over bounded datasets and names
\* ------------------------------------------------------------------------
\* the six signals of a bundle, each present or not, with every review count
AllBundles ==
  {[k \in {"Google Places", "SEM", "FB latest_posts", "Instagram", "Twitter",
           "Reviews (local and social)"} |->
      CASE k = "Google Places" -> gp
        [] k = "SEM" -> sem
        [] k = "FB latest_posts" -> fb
        [] k = "Instagram" -> ig
        [] k = "Twitter" -> tw
        [] OTHER -> reviews] :
     gp \in YesNo, sem \in YesNo, fb \in YesNo, ig \in YesNo, tw \in YesNo,
     reviews \in ReviewValues}

\* the k-th row of a dataset is named n1, N1, n2, N2, ...: two rows of a
\* dataset can carry one name, in the same or in another letter case
NameAt(k) == <<IF k % 2 = 1 THEN "n" ELSE "N", ToString((k + 1) \div 2)>>

\* what a row of a peer group can be: one of two categories that differ in
\* letter case only, with all, some or none of the three core signals
PeerProfiles ==
  {MakeRow(<<"n">>, cat, <<"d">>, <<"t">>, bb) :
     cat \in {<<"a">>, <<"A">>},
     bb \in {Dict(Bundle(Str("Yes"), Num(21), Str("Yes"), Str("Yes"))),
             Dict(Bundle(Str("Yes"), Num(20), Str("No"), Str("No"))),
             Dict(Bundle(Str("No"), Num(11), Str("Yes"), Str("Yes"))),
             Text("Not Found")}}

Named(p) == [k \in 1..Len(p) |-> [p[k] EXCEPT !["Prospect Business Name"] = NameAt(k)]]

\* datasets of one business under every bundle, and of up to MaxPeers peers
DetailDatasets ==
  {<<MakeRow(NameAt(1), <<"a">>, <<"d">>, <<"t">>, Dict(bb))>> : bb \in AllBundles}
  \cup {Named(p) : p \in SeqsUpTo(PeerProfiles, MaxPeers)}

\* the names asked for: of a row, in either letter case, of a second row, a
\* part of a name, a name with more after it, and a name of no row
DetailNames ==
  {<<"n", "1">>, <<"N", "1">>, <<"n", "2">>, <<"n">>, <<"n", "1", "2">>, <<"z">>}

\* One call of get_prospect_details on the loaded dataset.
GetProspectDetails ==
  /\ report = NoCall
  /\ \E name \in DetailNames :
       /\ prospect_name' = name
       /\ report' = get_prospect_details(df, name)
  /\ UNCHANGED <<searchVars, scoreVars>>
  /\ UNCHANGED <<turnVars, routerVars, workerVars>>

\* The report is handed to the agent.
DetailReturn ==
  /\ report # NoCall
  /\ prospect_name' = <<>>
  /\ report' = NoCall
  /\ UNCHANGED <<searchVars, scoreVars>>
  /\ UNCHANGED <<turnVars, routerVars, workerVars>>

DetailInit ==
  /\ TurnInit
  /\ RouterIdle
  /\ df \in DetailDatasets
  /\ SearchIdle
  /\ ScoreIdle
  /\ DetailIdle
  /\ WorkersIdle

DetailNext ==
  \/ GetProspectDetails
  \/ DetailReturn

SpecDetail == DetailInit /\ [][DetailNext]_vars

\* ------------------------------------------------------------------------
\* The two analyses on rows whose bundle cell is absent, a placeholder,
\* text or a dict
\* ------------------------------------------------------------------------
WithoutBundle(row) ==
  [c \in DOMAIN row \ {"BuzzBoard Data Parsed"} |-> row[c]]

\* what the bundle cell of a row can hold
BundleCells ==
  { Text("Not Found"), Text("n/a"), Text("{'SEM': 'Yes'}"),
    Text("[{'SEM': 'Yes'}]"), Text("12"), Dict(EmptyDict),
    Dict(Bundle(Str("Yes"), Num(21), Str("Yes"), Str("Yes"))) }

BundleRows ==
  {MakeRow(<<"n">>, <<"a">>, <<"d">>, <<"t">>, bb) : bb \in BundleCells}

\* datasets of one business, with the bundle column or without it, and of
\* a business with one peer
BundleDatasets ==
  {Named(<<r>>) : r \in BundleRows}
  \cup {Named(<<WithoutBundle(r)>>) : r \in BundleRows}
  \cup {Named(<<r, p>>) : r \in BundleRows, p \in BundleRows}

\* One call of _analyze_prospect on a row of the loaded dataset.
AnalyzeStoredRow ==
  /\ analysis = NoCall
  /\ \E i \in 1..Len(df), q \in Queries, m \in BOOLEAN :
       /\ prospect' = df[i]
       /\ query' = q
       /\ relaxed_mode' = m
       /\ analysis' = _analyze_prospect(df[i], q, m)
  /\ UNCHANGED <<df, extraction, found, again>>
  /\ UNCHANGED <<turnVars, routerVars, detailVars, workerVars>>

BundleInit ==
  /\ TurnInit
  /\ RouterIdle
  /\ df \in BundleDatasets
  /\ SearchIdle
  /\ ScoreIdle
  /\ DetailIdle
  /\ WorkersIdle

BundleNext ==
  \/ AnalyzeStoredRow
  \/ ScoreReturn
  \/ GetProspectDetails
  \/ DetailReturn

SpecBundle == BundleInit /\ [][BundleNext]_vars

\* ------------------------------------------------------------------------
\* utils/helpers.py : run_conversation called by two threads at once
\* (one Streamlit session each) on the module's conversation_memory.  No
\* statement of run_conversation takes a lock; a thread can be preempted
\* between any two of the steps below.
\* ------------------------------------------------------------------------

\* the memory after n turns made one after the other, each answered
Answered(n) ==
  [i \in 1..n |-> [query |-> i, timestamp |-> i, response |-> [answers |-> i]]]

\* an entry is one dict object, whichever lists hold it: a response written
\* on it shows in every list
WriteResponse(h, q, resp) ==
  [i \in 1..Len(h) |->
     IF h[i].query = q
     THEN [k \in DOMAIN h[i] \cup {"response"} |->
             IF k = "response" THEN resp ELSE h[i][k]]
     ELSE h[i]]

restOfTurn == <<pc, visited, steps, prompt, route, outcome, failure,
                output_data, answer_kind>>

\* line 19: the thread appends the entry of its query
WAppend(t) ==
  /\ w_pc[t] = "idle"
  /\ LET q == turnNo + 1 IN
       /\ history' = Append(history, [query |-> q, timestamp |-> q])
       /\ arrivals' = Append(arrivals, q)
       /\ turnNo' = q
       /\ w_query' = [w_query EXCEPT ![t] = q]
  /\ w_pc' = [w_pc EXCEPT ![t] = "cut"]
  /\ UNCHANGED <<user_context, w_slice, restOfTurn>>
  /\ UNCHANGED <<routerVars, searchVars, scoreVars, detailVars>>

\* lines 25-26, the right-hand side: the length is tested and the list of
\* the last 10 entries is built
WSlice(t) ==
  /\ w_pc[t] = "cut"
  /\ IF Len(history) > HistoryLimit
     THEN /\ w_slice' = [w_slice EXCEPT ![t] = LastN(history, HistoryLimit)]
          /\ w_pc' = [w_pc EXCEPT ![t] = "assign"]
     ELSE /\ w_pc' = [w_pc EXCEPT ![t] = "route"]
          /\ UNCHANGED w_slice
  /\ UNCHANGED <<history, user_context, turnNo, arrivals, w_query, restOfTurn>>
  /\ UNCHANGED <<routerVars, searchVars, scoreVars, detailVars>>

\* line 26, the assignment: the list built becomes the history
WAssign(t) ==
  /\ w_pc[t] = "assign"
  /\ history' = w_slice[t]
  /\ w_slice' = [w_slice EXCEPT ![t] = <<>>]
  /\ w_pc' = [w_pc EXCEPT ![t] = "route"]
  /\ UNCHANGED <<user_context, turnNo, arrivals, w_query, restOfTurn>>
  /\ UNCHANGED <<routerVars, searchVars, scoreVars, detailVars>>

\* lines 29-40: the state is built and the graph entered; the router sends
\* the turn to a handler or to END, or raises
WRoute(t) ==
  /\ w_pc[t] = "route"
  /\ \E answer \in TurnAnswers :
       LET r == route_requests(answer, user_context) IN
         IF r.kind = "raise"
         THEN /\ w_pc' = [w_pc EXCEPT ![t] = "done"]
              /\ UNCHANGED user_context
         ELSE /\ user_context' = r.user_context
              /\ w_pc' = [w_pc EXCEPT ![t] =
                            IF EntryMap[r.route] \in Handlers
                            THEN "handle" ELSE "return"]
  /\ UNCHANGED <<history, turnNo, arrivals, w_query, w_slice, restOfTurn>>
  /\ UNCHANGED <<routerVars, searchVars, scoreVars, detailVars>>

\* lines 40-49: the handler's event arrives and its response is written on
\* the last entry of the history; or the handler raises
WRespond(t) ==
  /\ w_pc[t] = "handle"
  /\ \/ /\ history # <<>>
        /\ LET last == history[Len(history)].query IN
             /\ history' = WriteResponse(history, last, [answers |-> w_query[t]])
             /\ w_slice' = [u \in Workers |->
                              WriteResponse(w_slice[u], last,
                                            [answers |-> w_query[t]])]
        /\ w_pc' = [w_pc EXCEPT ![t] = "return"]
     \/ /\ w_pc' = [w_pc EXCEPT ![t] = "done"]
        /\ UNCHANGED <<history, w_slice>>
  /\ UNCHANGED <<user_context, turnNo, arrivals, w_query, restOfTurn>>
  /\ UNCHANGED <<routerVars, searchVars, scoreVars, detailVars>>

\* line 53
WReturn(t) ==
  /\ w_pc[t] = "return"
  /\ w_pc' = [w_pc EXCEPT ![t] = "done"]
  /\ UNCHANGED <<history, user_context, turnNo, arrivals, w_query, w_slice,
                 restOfTurn>>
  /\ UNCHANGED <<routerVars, searchVars, scoreVars, detailVars>>

\* the two calls arrive on a memory that holds the turns made before
ConcurrentInit ==
  /\ \E n \in 0..HistoryLimit :
       /\ history = Answered(n)
       /\ turnNo = n
       /\ arrivals = [i \in 1..n |-> i]
  /\ user_context = EmptyDict
  /\ pc = "idle"
  /\ visited = <<>>
  /\ steps = 0
  /\ prompt = NoCall
  /\ route = NoValue
  /\ outcome = "none"
  /\ failure = NoValue
  /\ output_data = EmptyDict
  /\ answer_kind = NoValue
  /\ RouterIdle
  /\ df = <<>>
  /\ SearchIdle
  /\ ScoreIdle
  /\ DetailIdle
  /\ WorkersIdle

ConcurrentNext ==
  \E t \in Workers :
    \/ WAppend(t)
    \/ WSlice(t)
    \/ WAssign(t)
    \/ WRoute(t)
    \/ WRespond(t)
    \/ WReturn(t)

SpecConcurrent == ConcurrentInit /\ [][ConcurrentNext]_vars

\* ------------------------------------------------------------------------
\* Properties of the orchestration graph and the conversation memory (Spec)
\* ------------------------------------------------------------------------
FullKeys == {"query", "timestamp", "response"}

\* C1: in every turn the graph goes from the entry point to exactly the node
\* of the route the router returned (a handler, or END for "end"); a handler's
\* only successor in the graph is END, END has no successor but the end of
\* the turn, and at most one handler is entered in a turn.
C1_SingleDispatch ==
  [][ /\ (pc = "start" /\ pc' \notin {"start", "idle"}) =>
           /\ route' \in Routes
           /\ pc' = (IF route' = "end" THEN END ELSE route')
      /\ (pc \in Handlers /\ pc' \notin {pc, "idle"}) => pc' = END
      /\ (pc = END) => pc' \in {END, "idle"}
      /\ Len(visited') <= 1
      /\ \A i \in 1..Len(visited') : visited'[i] \in Handlers ]_vars

C1_Witness ==
  /\ pc = END
  /\ route = "insights"
  /\ visited = <<"insights">>
  /\ steps = 2

\* C2: the history never holds more than 10 entries, and its entries are the
\* most recent min(n, 10) queries received, oldest first.
C2_HistoryBound ==
  /\ Len(history) <= HistoryLimit
  /\ QueriesOf(history) = LastN(arrivals, HistoryLimit)

C2_Witness ==
  /\ Len(arrivals) > HistoryLimit
  /\ Len(history) = HistoryLimit
  /\ history[1].query = arrivals[Len(arrivals) - HistoryLimit + 1]
  /\ history[1].query # arrivals[1]

\* C3: when the classifier call of the router raised, the turn ends with
\* run_conversation returning, on the "end" route, with an error marker in
\* the returned value.
C3_ClassifierFailureTerminates ==
  (pc = "idle" /\ answer_kind = "raise") =>
     /\ outcome = "returned"
     /\ route = "end"
     /\ "error" \in DOMAIN output_data

\* C6: whenever no turn is in flight, every entry of the history carries
\* query, timestamp and response.
C6_AtomicAppend ==
  pc = "idle" => \A i \in 1..Len(history) : DOMAIN history[i] = FullKeys

\* ------------------------------------------------------------------------
\* Properties of route_requests (SpecRouter)
\* ------------------------------------------------------------------------
DelimCount(t) == Cardinality({i \in 1..Len(t) : t[i] = "|"})

\* the route token: the whole text without a delimiter, else what follows the
\* first delimiter up to the next one
TokenText(t) == IF DelimCount(t) = 0 THEN t ELSE Split(t, "|")[2]

HasWord(t, w) == Contains(Lower(t), <<w>>)

HasBoth(t) == HasWord(t, "prospecting") /\ HasWord(t, "insights")

\* C4 as stated: every classifier text holding both "prospecting" and
\* "insights", anywhere and in any letter case, is routed to prospecting.
C4_BothAnywhere ==
  (r_answer.kind = "text" /\ HasBoth(r_answer.text)) =>
     (r_out.kind = "return" /\ r_out.route = "prospecting")

\* C4 amended: every classifier text with at most one delimiter whose route
\* token holds both "prospecting" and "insights", in any letter case, is
\* routed to prospecting.
C4_BothInRouteToken ==
  (/\ r_answer.kind = "text"
   /\ DelimCount(r_answer.text) <= 1
   /\ HasBoth(TokenText(r_answer.text))) =>
     (r_out.kind = "return" /\ r_out.route = "prospecting")

C4_Witness ==
  /\ r_answer.kind = "text"
  /\ DelimCount(r_answer.text) = 1
  /\ HasBoth(TokenText(r_answer.text))
  /\ HasWord(TokenText(r_answer.text), "insights")
  /\ r_out.kind = "return"
  /\ r_out.route = "prospecting"

\* C5: for every classifier text route_requests returns one of the four
\* routes; without a delimiter it writes no user segment; and the route is
\* "end" exactly when the lower-cased route token holds none of the three
\* keywords.
C5_Total ==
  r_answer.kind = "text" =>
     /\ r_out.kind = "return"
     /\ r_out.route \in Routes
     /\ (DelimCount(r_answer.text) = 0 => r_out.user_context = r_before)
     /\ (r_out.route = "end" <=>
           (/\ ~HasWord(TokenText(r_answer.text), "prospecting")
            /\ ~HasWord(TokenText(r_answer.text), "insights")
            /\ ~HasWord(TokenText(r_answer.text), "communication")))

\* ------------------------------------------------------------------------
\* Properties of find_prospects_hybrid (SpecSearch)
\* ------------------------------------------------------------------------
Called == found # NoCall

Extracted == Called /\ extraction.kind = "ok"

RowKept(row) == \E i \in 1..Len(found.filtered_df) : found.filtered_df[i] = row

\* C7: when the extraction raises or gives no usable object, the call
\* returns the one-element list with the status "Failed to process query"
\* and goes through no filtering, no broader search and no scoring.
C7_ExtractionFailure ==
  (Called /\ extraction.kind \in {"raise", "no_object"}) =>
     /\ found.out = <<[Status |-> "Failed to process query"]>>
     /\ found.stages = {"extract"}
     /\ found.filtered_df = <<>>
     /\ found.strict = <<>>

C7_Witness ==
  /\ Called
  /\ extraction.kind = "no_object"
  /\ Len(df) = MaxRows
  /\ query # <<>>
  /\ found.out = <<[Status |-> "Failed to process query"]>>

\* the tests the operators stand for: substring and exact comparison of the
\* lower-cased field and value; a condition on a column the dataset does not
\* have is passed over
Satisfies(row, f) ==
  \/ f.field \notin Columns
  \/ LET col == Lower(row[f.field])
         val == Lower(f.value)
     IN CASE f.operator = "contains" -> Contains(col, val)
          [] f.operator = "not_contains" -> ~Contains(col, val)
          [] f.operator = "equals" -> col = val
          [] f.operator = "not_equals" -> col # val

IsCategoryEquals(f) == f.field = "Primary Category" /\ f.operator = "equals"

\* C8: the category rescue apart (no equals condition on the category), a
\* row survives structured filtering if and only if it satisfies every
\* condition, contains/not_contains being substring tests and
\* equals/not_equals exact tests on lower-cased values.
C8_Conjunction ==
  (/\ Extracted
   /\ \A k \in 1..Len(extraction.filters) : ~IsCategoryEquals(extraction.filters[k])) =>
     \A i \in 1..Len(df) :
        RowKept(df[i]) <=>
          \A k \in 1..Len(extraction.filters) : Satisfies(df[i], extraction.filters[k])

SingleEquals ==
  /\ Extracted
  /\ Len(extraction.filters) = 1
  /\ extraction.filters[1].operator = "equals"
  /\ extraction.filters[1].field \in Columns

NoExactMatch ==
  \A i \in 1..Len(df) :
     Lower(df[i][extraction.filters[1].field]) # Lower(extraction.filters[1].value)

\* C9: for a single equals condition whose exact match set is empty, on the
\* category the rows kept are those a contains condition on the same
\* value keeps (so also every row whose category has the value as a
\* substring); on any other field no row is kept.
C9_CategoryRescue ==
  (SingleEquals /\ NoExactMatch) =>
     LET f == extraction.filters[1] IN
       IF f.field = "Primary Category"
       THEN /\ found.filtered_df =
                 ApplyFilters(df, <<Cond(f.field, "contains", f.value)>>)
            /\ \A i \in 1..Len(df) :
                 Contains(Lower(df[i][f.field]), Lower(f.value)) => RowKept(df[i])
       ELSE found.filtered_df = <<>>

C9_Witness ==
  /\ SingleEquals
  /\ NoExactMatch
  /\ extraction.filters[1].field = "Primary Category"
  /\ found.filtered_df # <<>>
  /\ Len(found.filtered_df) < Len(df)

\* C10: for a query asking for low or weak local presence, every row left by
\* structured filtering whose local-presence sub-score is above 2 is scored 0
\* in strict mode and is absent from the strict results, whatever else the
\* query asks for.
C10_LowPresenceExcludes ==
  (Extracted /\ LowPresenceAsked(query)) =>
     \A i \in 1..Len(found.filtered_df) :
        LET row == found.filtered_df[i] IN
          LocalPresenceScore(Buzzboard(row)) > 2 =>
            /\ _analyze_prospect(row, query, FALSE).relevance_score = 0
            /\ \A j \in 1..Len(found.strict) :
                 found.strict[j].name # row["Prospect Business Name"]

\* ------------------------------------------------------------------------
\* Properties of _analyze_prospect (SpecScore)
\* ------------------------------------------------------------------------
Analysed == analysis # NoCall

\* the query holds neither of the two local-presence phrases
NoPresencePhrase ==
  /\ ~QueryHas(query, "low local presence")
  /\ ~QueryHas(query, "weak local presence")

\* the row with its three local-presence signals replaced, all else kept
WithLocalSignals(row, gp, reviews, fb) ==
  LET bb == Buzzboard(row)
      keys == DOMAIN bb \cup {"Google Places", "Reviews (local and social)",
                              "FB latest_posts"}
  IN [row EXCEPT !["BuzzBoard Data Parsed"] =
        Dict([k \in keys |->
                CASE k = "Google Places" -> gp
                  [] k = "Reviews (local and social)" -> reviews
                  [] k = "FB latest_posts" -> fb
                  [] OTHER -> bb[k]])]

\* the row under every local-presence sub-score from 0 to 6
LocalSignalRows(row) ==
  {WithLocalSignals(row, gp, reviews, fb) :
     gp \in YesNo, reviews \in {Num(0), Num(15)}, fb \in YesNo}

\* C11: for a query with neither local-presence phrase, the strict relevance
\* of a row is the one it has under any other value of its local-presence
\* sub-score, and it is 0 only by the high-SEM exclusion.
C11_PresenceClauseGated ==
  (Analysed /\ ~relaxed_mode /\ NoPresencePhrase) =>
     /\ \A v \in LocalSignalRows(prospect) :
          _analyze_prospect(v, query, FALSE).relevance_score = analysis.relevance_score
     /\ analysis.relevance_score = 0 =>
          (HighSemAsked(query) /\ SemScore(Buzzboard(prospect)) < 3)

C11_Witness ==
  /\ Analysed
  /\ ~relaxed_mode
  /\ NoPresencePhrase
  /\ LocalPresenceScore(Buzzboard(prospect)) > 2
  /\ analysis.relevance_score = 4
  /\ \E v \in LocalSignalRows(prospect) :
       /\ LocalPresenceScore(Buzzboard(v)) = 0
       /\ _analyze_prospect(v, query, FALSE).relevance_score = 4

\* ------------------------------------------------------------------------
\* Properties of find_prospects_hybrid on long datasets (SpecSearchBig)
\* ------------------------------------------------------------------------
\* C12: when the filtering leaves at least one row and the strict scoring
\* leaves none with relevance above 0, the call returns the first 5 filtered
\* rows (all of them when fewer) analysed in relaxed mode, and neither an
\* empty list nor a status record.
C12_RelaxedFallback ==
  (Extracted /\ found.filtered_df # <<>> /\ found.strict = <<>>) =>
     LET head == FirstN(found.filtered_df, FallbackRows) IN
       /\ found.out # <<>>
       /\ Len(found.out) = Len(head)
       /\ \A i \in 1..Len(head) : \E j \in 1..Len(found.out) :
            found.out[j] = _analyze_prospect(head[i], query, TRUE)
       /\ \A j \in 1..Len(found.out) :
            /\ "Status" \notin DOMAIN found.out[j]
            /\ found.out[j].match_type = "Relaxed"
            /\ found.out[j].relevance_score >= 1

C12_Witness ==
  /\ Extracted
  /\ Len(found.filtered_df) > FallbackRows
  /\ found.strict = <<>>
  /\ \A i \in 1..Len(found.filtered_df) :
       _analyze_prospect(found.filtered_df[i], query, FALSE).relevance_score = 0
  /\ Len(found.out) = FallbackRows
  /\ found.out[1].relevance_score > found.out[FallbackRows].relevance_score
  /\ found.out[1].name # found.filtered_df[1]["Prospect Business Name"]

\* the call returned candidates, not a status record
CandidatesReturned ==
  /\ Called
  /\ \A j \in 1..Len(found.out) : "Status" \notin DOMAIN found.out[j]

\* C13: on every path (strict results, relaxed fallback, broader search) a
\* returned candidate list has at most 10 entries and is in non-increasing
\* order of relevance_score.
C13_RankedTopTen ==
  CandidatesReturned =>
     /\ Len(found.out) <= TopResults
     /\ \A j \in 1..(Len(found.out) - 1) :
          found.out[j].relevance_score >= found.out[j + 1].relevance_score

\* the rows of the dataset whose lower-cased category holds the stem
StemRows(stem) ==
  LET Holds(r) == Contains(Lower(r["Primary Category"]), <<stem>>)
  IN SelectSeq(df, Holds)

\* the rows the broader search is to analyse: up to 5 of a computer category
\* for a query with "computer", then up to 5 of a contract category for a
\* query with "contractor"
BroaderMatches ==
  (IF QueryHas(query, "computer")
   THEN FirstN(StemRows("computer"), BroaderRows) ELSE <<>>)
  \o (IF QueryHas(query, "contractor")
      THEN FirstN(StemRows("contract"), BroaderRows) ELSE <<>>)

\* C14: when the filtering leaves no row, the result is that of the broader
\* search alone: the stem matches (at most 5 per stem) analysed in relaxed
\* mode when there are any, else one status record with the counts of at
\* most 10 categories, none less frequent than a category left out; never
\* an empty list and never the "Failed to process query" status.
C14_BroaderSearchAlone ==
  (Extracted /\ found.filtered_df = <<>>) =>
     /\ found.out # <<>>
     /\ found.out # FailedStatus
     /\ found.strict = <<>>
     /\ IF BroaderMatches # <<>>
        THEN /\ Len(found.out) = Len(BroaderMatches)
             /\ \A j \in 1..Len(found.out) :
                  /\ found.out[j] = _analyze_prospect(BroaderMatches[j], query, TRUE)
                  /\ found.out[j].match_type = "Relaxed"
        ELSE /\ Len(found.out) = 1
             /\ DOMAIN found.out[1] = {"Status", "Suggestion", "AvailableCategories"}
             /\ found.out[1].Status = "No exact matches found"
             /\ LET listed == found.out[1].AvailableCategories
                    cats == CategoriesOf(df)
                IN /\ DOMAIN listed \subseteq cats
                   /\ Cardinality(DOMAIN listed) <= TopCategories
                   /\ Cardinality(cats) <= TopCategories => DOMAIN listed = cats
                   /\ Cardinality(cats) > TopCategories =>
                        Cardinality(DOMAIN listed) = TopCategories
                   /\ \A c \in DOMAIN listed :
                        /\ listed[c] = CategoryCount(df, c)
                        /\ \A e \in cats \ DOMAIN listed :
                             CategoryCount(df, c) >= CategoryCount(df, e)

C14_Witness ==
  /\ Extracted
  /\ df # <<>>
  /\ found.filtered_df = <<>>
  /\ BroaderMatches = <<>>
  /\ Len(found.out) = 1
  /\ "AvailableCategories" \in DOMAIN found.out[1]
  /\ Cardinality(CategoriesOf(df)) > TopCategories
  /\ Cardinality(DOMAIN found.out[1].AvailableCategories) = TopCategories
  /\ \E c \in DOMAIN found.out[1].AvailableCategories :
       found.out[1].AvailableCategories[c] = 2

\* ------------------------------------------------------------------------
\* Further properties of find_prospects_hybrid (SpecSearch)
\* ------------------------------------------------------------------------
\* a query with a local-presence phrase, and an extraction without conditions
LowPresenceNoFilters ==
  /\ Extracted
  /\ extraction.filters = <<>>
  /\ QueryHas(query, "low local presence") \/ QueryHas(query, "weak local presence")

Reported == report # NoCall

ReportKeys ==
  {"Prospect Business Name", "Primary Category", "Location", "BuzzBoard Metrics",
   "SWOT Analysis", "Market Trends", "Competitor Analysis", "Communication Timing",
   "Engagement Strategy"}

IsReport == Reported /\ DOMAIN report = ReportKeys

\* the positions of the rows whose name is the given name, letter case apart
SameNameRows ==
  {i \in 1..Len(df) : Lower(df[i]["Prospect Business Name"]) = Lower(prospect_name)}

\* the row reported on: the first of that name
Subject == df[CHOOSE i \in SameNameRows : \A j \in SameNameRows : i <= j]

\* C16: get_prospect_details returns a report exactly when some row's name
\* is the given name, letter case apart (a part of a name, or a name with
\* more after it, does not match); it returns None otherwise, and no report,
\* not even one with every score 0, is None.
C16_ExactNameOrNone ==
  Reported =>
     /\ IsReport <=> SameNameRows # {}
     /\ SameNameRows = {} <=> report = None
     /\ IsReport =>
          /\ report # None
          /\ Lower(report["Prospect Business Name"]) = Lower(prospect_name)

C16_Witness ==
  /\ IsReport
  /\ prospect_name = <<"N", "1">>
  /\ report["Prospect Business Name"] = <<"n", "1">>
  /\ report["BuzzBoard Metrics"]["SEO Score"] = 0
  /\ report["BuzzBoard Metrics"]["Social Media Score"] = 0
  /\ report # None

\* the core signals the subject lacks
MissingSignals ==
  {k \in {"Google Places", "SEM", "FB latest_posts"} :
     ~IsYes(Get(Buzzboard(Subject), k, None))}

\* C17: under every combination of the three core signals the SWOT analysis
\* has a non-empty Strengths list and a non-empty Opportunities list, and
\* Opportunities holds an action for each missing signal (the catch-all entry
\* apart).
C17_SwotNeverEmpty ==
  IsReport =>
     LET swot == report["SWOT Analysis"]
         actions == {i \in 1..Len(swot.Opportunities) :
                       swot.Opportunities[i] # "Complete digital transformation opportunity"}
     IN /\ swot.Strengths # <<>>
        /\ swot.Opportunities # <<>>
        /\ Cardinality(actions) = Cardinality(MissingSignals)

\* the peer group of a row: the rows of its category and state, the row
\* itself among them
PeersOf(subject) ==
  {i \in 1..Len(df) : /\ df[i]["Primary Category"] = subject["Primary Category"]
                      /\ df[i]["State"] = subject["State"]}

Peers == PeersOf(Subject)

PeersWith(signal) ==
  Cardinality({i \in Peers : IsYes(Get(Buzzboard(df[i]), signal, None))})

\* the statements whose threshold a peer group of n rows crosses, gp of them
\* with Google Places, sem with SEM and social with social activity, in the
\* order of the report
CrossedTrends(n, gp, sem, social) ==
  (IF gp * 100 > 70 * n THEN <<"High Google Places adoption">> ELSE <<>>)
  \o (IF sem * 100 > 50 * n THEN <<"Growing SEM usage">> ELSE <<>>)
  \o (IF social * 100 < 30 * n THEN <<"Low social media presence">> ELSE <<>>)

\* C18: the Market Trends of a report are never empty; they are the one
\* insufficient-data statement, without a percentage, exactly when the peer
\* group has at most one member; otherwise they are exactly the statements
\* whose threshold is crossed (more than 70% with Google Places, more than
\* 50% with SEM, less than 30% with social activity), or the one
\* standard-adoption statement when none is.
C18_MarketTrends ==
  IsReport =>
     LET trends == report["Market Trends"]
         peers == PeersOf(Subject)
         n == Cardinality(peers)
         with(signal) ==
           Cardinality({i \in peers : IsYes(Get(Buzzboard(df[i]), signal, None))})
         crossed == CrossedTrends(n, with("Google Places"), with("SEM"),
                                  with("FB latest_posts"))
     IN /\ trends # <<>>
        /\ (trends[1].trend = "Limited market data available") <=> (n <= 1)
        /\ n <= 1 =>
             /\ Len(trends) = 1
             /\ DOMAIN trends[1] = {"trend"}
        /\ n > 1 =>
             IF crossed = <<>>
             THEN /\ Len(trends) = 1
                  /\ trends[1] = [trend |-> "Market shows standard digital adoption"]
             ELSE /\ Len(trends) = Len(crossed)
                  /\ \A i \in 1..Len(trends) :
                       /\ trends[i].trend = crossed[i]
                       /\ trends[i].percent \in 0..100

C18_Witness ==
  /\ IsReport
  /\ Cardinality(Peers) = 3
  /\ Len(df) = 3
  /\ PeersWith("Google Places") = 2
  /\ PeersWith("SEM") = 2
  /\ PeersWith("FB latest_posts") = 2
  /\ report["Market Trends"] = <<[trend |-> "Growing SEM usage", percent |-> 67]>>

\* C19: the local-presence sub-score of a bundle is in 0..6, its SEO score
\* and its social score are in 0..10, and the composite score of the report
\* is their arithmetic mean, in 0..10.
C19_ScoreRanges ==
  IsReport =>
     LET metrics == report["BuzzBoard Metrics"]
         seo == metrics["SEO Score"]
         social == metrics["Social Media Score"]
         tenths == 10 * metrics["D-Score"].whole + metrics["D-Score"].tenth
     IN /\ LocalPresenceScore(Buzzboard(Subject)) \in 0..6
        /\ seo \in 0..10
        /\ social \in 0..10
        /\ seo = _calculate_seo_score(Buzzboard(Subject))
        /\ social = _calculate_social_score(Buzzboard(Subject))
        /\ tenths \in 0..100
        /\ 2 * tenths = 10 * (seo + social)

C19_Witness ==
  /\ IsReport
  /\ LocalPresenceScore(Buzzboard(Subject)) = 6
  /\ report["BuzzBoard Metrics"]["SEO Score"] = 10
  /\ report["BuzzBoard Metrics"]["Social Media Score"] = 5
  /\ report["BuzzBoard Metrics"]["D-Score"] = [whole |-> 7, tenth |-> 5]

RangeOf(s) == { s[i] : i \in 1..Len(s) }

\* the step is one of a turn in which the classifier has just been asked
Routed == pc = "start" /\ pc' # "start" /\ answer_kind' # NoValue

\* C22: a step that removes entries from the history is either the reset,
\* which leaves the history and the user context empty, or the append of a
\* new query with the cut to the last 10; every other step keeps the queries
\* of the history as they are.  The queries a turn hands to the classifier
\* were all received after the last reset.
C22_ClearForgets ==
  [][ /\ \/ QueriesOf(history') = QueriesOf(history)
         \/ /\ Len(history') > 0
            /\ QueriesOf(history') =
                 LastN(Append(QueriesOf(history), turnNo'), HistoryLimit)
         \/ /\ history' = <<>>
            /\ DOMAIN user_context' = {}
            /\ arrivals' = <<>>
      /\ Routed =>
           /\ RangeOf(prompt'.last_message.previous) \subseteq RangeOf(arrivals)
           /\ RangeOf(QueriesOf(prompt'.conversation_history))
                 \subseteq RangeOf(arrivals) ]_vars

C22_Witness ==
  /\ turnNo > 1
  /\ Len(arrivals) = 1
  /\ pc = END
  /\ DOMAIN user_context = {}
  /\ prompt.last_message.previous = <<turnNo>>

\* C26: the user segment the router writes stays in the turn that wrote it:
\* whenever no turn is in flight, and when a turn starts, the process-wide
\* user context holds no user segment.
C26_SegmentTurnScoped ==
  pc \in {"idle", "start"} => "user_type" \notin DOMAIN user_context

\* C28: the history window handed to the classifier holds at most 3 entries,
\* all of them queries of turns before the current one, oldest first, and the
\* current query is not among them.
C28_WindowOfEarlierTurns ==
  answer_kind # NoValue =>
    LET window == QueriesOf(prompt.conversation_history)
        current == prompt.last_message.current IN
      /\ Len(window) <= ContextWindow
      /\ \A i \in 1..Len(window) : window[i] < current
      /\ \A i \in 1..(Len(window) - 1) : window[i] < window[i + 1]
      /\ \A i \in 1..Len(prompt.last_message.previous) :
            prompt.last_message.previous[i] # current

\* ------------------------------------------------------------------------
\* Properties of the returned lists (SpecSearchBig)
\* ------------------------------------------------------------------------

AnalysisKeys ==
  {"name", "category", "location", "local_presence", "sem_activity", "gaps",
   "opportunities", "match_type", "relevance_score"}

StatusOnly(a) ==
  /\ "Status" \in DOMAIN a
  /\ "relevance_score" \notin DOMAIN a
  /\ "name" \notin DOMAIN a

\* C25: every record of a returned candidate list is a full analysis with
\* relevance_score at least 1; a returned list never holds a record with
\* relevance_score 0 or the per-row "Filtered out" marker.  (The only other
\* returned lists are the single status records, which name no row.)
C25_CandidatesScored ==
  Called =>
    \A j \in 1..Len(found.out) :
      LET a == found.out[j] IN
        \/ /\ StatusOnly(a)
           /\ Len(found.out) = 1
        \/ /\ DOMAIN a = AnalysisKeys
           /\ a.relevance_score >= 1

\* a relaxed fallback over rows every one of which the strict high-SEM
\* exclusion had marked as filtered out
C25_Witness ==
  /\ CandidatesReturned
  /\ "relaxed" \in found.stages
  /\ HighSemAsked(query)
  /\ Len(found.out) > 1
  /\ \A i \in 1..Len(found.filtered_df) :
        _analyze_prospect(found.filtered_df[i], query, FALSE)
           = FilteredOut(found.filtered_df[i])

Occurrences(out, name) ==
  Cardinality({ k \in 1..Len(out) :
                  "name" \in DOMAIN out[k] /\ out[k].name = name })

RowsNamed(rows, name) ==
  Cardinality({ i \in 1..Len(rows) : rows[i]["Prospect Business Name"] = name })

\* C27: no record of the dataset appears more than once in a returned list:
\* a name is listed at most as many times as the dataset has rows of that
\* name, also when the broader search joins the matches of both stems.
C27_NoDuplicates ==
  Called =>
    \A j \in 1..Len(found.out) :
      "name" \in DOMAIN found.out[j] =>
        Occurrences(found.out, found.out[j].name)
          <= RowsNamed(df, found.out[j].name)

\* ------------------------------------------------------------------------
\* Order of the conditions in structured filtering (SpecSearch)
\* ------------------------------------------------------------------------

Orderings(n) ==
  { p \in [1..n -> 1..n] : \A i, j \in 1..n : p[i] = p[j] => i = j }

Reordered(filters, p) == [i \in 1..Len(filters) |-> filters[p[i]]]

\* C24: the rows structured filtering keeps do not depend on the order of
\* the conditions: every permutation of the extracted conditions, also with
\* an equals condition on the category among them, keeps the rows the call
\* kept.
C24_OrderIndependent ==
  Extracted =>
    \A p \in Orderings(Len(extraction.filters)) :
      ApplyFilters(df, Reordered(extraction.filters, p)) = found.filtered_df

\* ------------------------------------------------------------------------
\* Rows without a usable signal bundle (SpecBundle)
\* ------------------------------------------------------------------------

\* the bundle of the row is absent, the placeholder, or text that does not
\* parse to a key-value mapping
NoUsableBundle(row) ==
  \/ "BuzzBoard Data Parsed" \notin DOMAIN row
  \/ LET b == row["BuzzBoard Data Parsed"] IN
       /\ b.kind = "str"
       /\ \/ b.s = "Not Found"
          \/ literal_eval(b.s).kind # "ok"
          \/ literal_eval(b.s).value.kind # "dict"

\* the row with an empty bundle in the place of an unusable one
Emptied(row) ==
  IF NoUsableBundle(row)
  THEN [c \in DOMAIN row \cup {"BuzzBoard Data Parsed"} |->
          IF c = "BuzzBoard Data Parsed" THEN Dict(EmptyDict) ELSE row[c]]
  ELSE row

EmptiedAll(rows) == [i \in 1..Len(rows) |-> Emptied(rows[i])]

\* C29: a row whose bundle is absent, the placeholder 'Not Found', or text
\* that does not parse to a key-value mapping is analysed by
\* _analyze_prospect and by get_prospect_details as the row with every
\* signal absent: neither call raises, the analysis and the report are those
\* of the row with an empty bundle, and the sub-scores of the report are 0.
C29_UnusableBundleIsEmpty ==
  /\ (analysis # NoCall /\ NoUsableBundle(prospect)) =>
        /\ ~Raised(analysis)
        /\ analysis = _analyze_prospect(Emptied(prospect), query, relaxed_mode)
  /\ (report # NoCall /\ report # None) =>
        /\ ~Raised(report)
        /\ report = get_prospect_details(EmptiedAll(df), prospect_name)
        /\ NoUsableBundle(NameMatches(df, prospect_name)[1]) =>
              /\ report["BuzzBoard Metrics"]["SEO Score"] = 0
              /\ report["BuzzBoard Metrics"]["Social Media Score"] = 0

\* ------------------------------------------------------------------------
\* Turns that are left to run (SpecLive)
\* ------------------------------------------------------------------------

\* The turns with nobody interrupting them: run_conversation runs on, so
\* the router, the handler and the end of the stream each happen once they
\* can.
NextLive ==
  \/ StartTurn
  \/ Route
  \/ Handle
  \/ Finish
  \/ clear_conversation_memory

SpecLive ==
  /\ Init
  /\ [][NextLive]_vars
  /\ WF_vars(Route)
  /\ WF_vars(Handle)
  /\ WF_vars(Finish)

\* C23: every turn takes a bounded number of graph steps, enters at most
\* one handler, and eventually reaches END: the k-th turn, once started, is
\* at END at some later time.
C23_TurnReachesEnd ==
  /\ [](Len(visited) <= 1 /\ steps <= RecursionLimit)
  /\ \A k \in 1..MaxTurns :
        (pc = "start" /\ turnNo = k) ~> (pc = END /\ turnNo = k)

\* ------------------------------------------------------------------------
\* Two turns in flight on the shared history (SpecConcurrent)
\* ------------------------------------------------------------------------

\* no thread is between its append and its cut
NoCutPending == \A t \in Workers : w_pc[t] \notin {"cut", "assign"}

\* C21: with two turns in flight, whatever the interleaving: a response is
\* only ever recorded on the entry of the query it answers, and once no cut
\* is pending the history holds at most 10 entries, the most recent queries
\* appended, none of them lost.
C21_SharedLogIntact ==
  /\ \A i \in 1..Len(history) :
        "response" \in DOMAIN history[i] =>
           history[i].response.answers = history[i].query
  /\ NoCutPending =>
        /\ Len(history) <= HistoryLimit
        /\ QueriesOf(history) = LastN(arrivals, HistoryLimit)

====
